---- MODULE Spec2Model ----
(***************************************************************************)
(* Model of src/src/index.ts: the App health monitor (probe scoring,       *)
(* restart guard, daily restart timer) and the ModemUtil.restart()         *)
(* sequence it drives, on the single-threaded Node.js event loop.          *)
(*                                                                         *)
(* One action is one run-to-completion event-loop task: a timer callback   *)
(* or the continuation of an awaited fetch, together with the promise      *)
(* reactions (microtasks) it schedules, which run before any other task.   *)
(* Wall-clock time is abstracted: timers fire and fetches settle in any    *)
(* order.                                                                  *)
(***************************************************************************)
EXTENDS Integers, FiniteSets, Sequences, TLC

VARIABLES
    config,                  \* App.config (scoring fields, restartEveryDayTime)
    pc,                      \* startup position: "constructed", "startDelay", "running"
    currentBadCount,         \* App.currentBadCount
    checkingIntervalHandler, \* App.checkingIntervalHandler (NULL or a timer id)
    isRestarting,            \* App.isRestarting
    intervals,               \* live setInterval timers of the runtime
    dailyTimeouts,           \* armed one-shot daily setTimeout timers
    probes,                  \* interval callbacks suspended in await checkingDelay()
    calls,                   \* modemUtil.restart() calls in flight
    last,                    \* the task that ran last (history, not program state)
    hist,                    \* what the samples so far add up to (history)
    schedule,                \* the daily schedule: time text, parsed date, now, next instant
    request                  \* one modemUtil.restart() call: device responses, result

vars == <<config, pc, currentBadCount, checkingIntervalHandler, isRestarting,
          intervals, dailyTimeouts, probes, calls, last, hist, schedule, request>>

\* The variables of App and of its timers, probes and calls.
appVars == <<config, pc, currentBadCount, checkingIntervalHandler, isRestarting,
             intervals, dailyTimeouts, probes, calls, last, hist>>

----------------------------------------------------------------------------
(* Bounds of the model *)

MaxBadIncrease == 2
MaxGoodReduce == 2
MaxMaxBadCount == 2
MaxProbes == 3
MaxCalls == 2
MaxTimerId == 2
MaxDays == 3

----------------------------------------------------------------------------
(* Program constants and input domains *)

NULL == 0
ExpectedDelay == 800
POSITIVE_INFINITY == 1000000

Elapsed == {100, ExpectedDelay, ExpectedDelay + 1, 2000}
FetchResults == {"ok", "networkError"}
DailyTimes == {"", "03:00"}
StartDelays == {0, 5000}

RestartSteps == <<"getFrmLoginToken", "postLogin", "getSessionToken", "postRestart">>
Responses == {"ok", "networkError", "empty", "noMatch"}

ProbeKinds == {"fresh", "stale"}

Configs ==
    [badIncrease : 1..MaxBadIncrease,
     goodReduce : 1..MaxGoodReduce,
     maxBadCount : 1..MaxMaxBadCount,
     expectedDelay : {ExpectedDelay},
     restartEveryDayTime : DailyTimes]

\* The defaults of the constructor, with and without a daily time.
DefaultMaxBadCount == 10
DefaultBadIncrease == 2
DefaultGoodReduce == 1

DefaultConfigs ==
    [badIncrease : {DefaultBadIncrease},
     goodReduce : {DefaultGoodReduce},
     maxBadCount : {DefaultMaxBadCount},
     expectedDelay : {ExpectedDelay},
     restartEveryDayTime : DailyTimes]

----------------------------------------------------------------------------
(* The mutable state as one value, so that the methods of App compose *)

World ==
    [currentBadCount |-> currentBadCount,
     checkingIntervalHandler |-> checkingIntervalHandler,
     isRestarting |-> isRestarting,
     intervals |-> intervals,
     dailyTimeouts |-> dailyTimeouts,
     probes |-> probes,
     calls |-> calls]

Commit(w) ==
    /\ currentBadCount' = w.currentBadCount
    /\ checkingIntervalHandler' = w.checkingIntervalHandler
    /\ isRestarting' = w.isRestarting
    /\ intervals' = w.intervals
    /\ dailyTimeouts' = w.dailyTimeouts
    /\ probes' = w.probes
    /\ calls' = w.calls

TotalProbes(p) == p["fresh"] + p["stale"]

\* The state stays inside the bounds of the model.
Within(w) ==
    /\ w.intervals \subseteq 1..MaxTimerId
    /\ TotalProbes(w.probes) <= MaxProbes
    /\ w.calls <= MaxCalls

Event(op, kind, good, call) == [op |-> op, kind |-> kind, good |-> good, call |-> call]

----------------------------------------------------------------------------
(* Runtime timers *)

\* The id of a new timer: one that no live timer has.
FreshTimer(w) ==
    LET free == (1..MaxTimerId) \ w.intervals
    IN  IF free = {} THEN MaxTimerId + 1
        ELSE CHOOSE i \in free : \A j \in free : i <= j

setInterval(w) ==
    LET id == FreshTimer(w)
    IN  [w EXCEPT !.intervals = @ \cup {id},
                  !.checkingIntervalHandler = id]

clearInterval(w, id) == [w EXCEPT !.intervals = @ \ {id}]

----------------------------------------------------------------------------
(* App *)

stopChecking(w) ==
    IF w.checkingIntervalHandler # NULL
    THEN [clearInterval(w, w.checkingIntervalHandler)
            EXCEPT !.checkingIntervalHandler = NULL,
                   !.currentBadCount = 0]
    ELSE w

startChecking_noGuard(w) == setInterval(w)

startChecking(w) ==
    IF w.checkingIntervalHandler # NULL
    THEN w
    ELSE setInterval(w)

\* restartModem up to its suspension: the guard, the flag, and the call of
\* modemUtil.restart(), which is then in flight.  The probes in flight at that
\* moment are from then on samples started before this restart.
restartModem_noGuard(w) ==
    [w EXCEPT !.isRestarting = TRUE,
              !.calls = @ + 1,
              !.probes = [k \in ProbeKinds |->
                             IF k = "stale" THEN TotalProbes(w.probes) ELSE 0]]

restartModem(w) ==
    IF w.isRestarting
    THEN w
    ELSE [w EXCEPT !.isRestarting = TRUE,
                   !.calls = @ + 1,
                   !.probes = [k \in ProbeKinds |->
                                  IF k = "stale" THEN TotalProbes(w.probes) ELSE 0]]

\* The catch block of restartModem.
restartModemCatch_keepFlag(w) == w

restartModemCatch(w) == [w EXCEPT !.isRestarting = FALSE]

\* restartModem().then(() => startChecking()): when restartModem returned at
\* its guard the promise is already resolved and the reaction runs as a
\* microtask of the same task; otherwise it runs when the call settles.
onBadChecked(w) ==
    LET w1 == stopChecking(w)
        w2 == restartModem(w1)
    IN  IF w1.isRestarting THEN startChecking(w2) ELSE w2

registerRestartEveryDay_notWhenRestarting(w) ==
    IF config.restartEveryDayTime = "" \/ w.isRestarting
    THEN w
    ELSE [w EXCEPT !.dailyTimeouts = @ + 1]

registerRestartEveryDay(w) ==
    IF config.restartEveryDayTime = ""
    THEN w
    ELSE [w EXCEPT !.dailyTimeouts = @ + 1]

\* The callback of the daily setTimeout.
dailyCallback_noResumeAtGuard(w) ==
    LET w1 == stopChecking(w)
        w2 == restartModem(w1)
    IN  registerRestartEveryDay(w2)

dailyCallback(w) ==
    LET w1 == stopChecking(w)
        w2 == restartModem(w1)
        w3 == registerRestartEveryDay(w2)
    IN  IF w1.isRestarting THEN startChecking(w3) ELSE w3

checkingDelay(result, elapsed) ==
    IF result = "networkError" THEN POSITIVE_INFINITY ELSE elapsed

\* The interval callback after the await, delay > expectedDelay.
onBadDelay_strictCeiling(w) ==
    IF w.isRestarting
    THEN w
    ELSE LET w1 == [w EXCEPT !.currentBadCount = @ + config.badIncrease]
         IN  IF w1.currentBadCount > config.maxBadCount
             THEN onBadChecked([w1 EXCEPT !.currentBadCount = 0])
             ELSE w1

onBadDelay_checkBeforeIncrement(w) ==
    IF w.isRestarting
    THEN w
    ELSE IF w.currentBadCount >= config.maxBadCount
         THEN onBadChecked([w EXCEPT !.currentBadCount = 0])
         ELSE [w EXCEPT !.currentBadCount = @ + config.badIncrease]

onBadDelay(w) ==
    IF w.isRestarting
    THEN w
    ELSE LET w1 == [w EXCEPT !.currentBadCount = @ + config.badIncrease]
         IN  IF w1.currentBadCount >= config.maxBadCount
             THEN onBadChecked([w1 EXCEPT !.currentBadCount = 0])
             ELSE w1

\* The interval callback after the await, delay <= expectedDelay.
onGoodDelay(w) ==
    LET w1 == IF w.isRestarting THEN [w EXCEPT !.isRestarting = FALSE] ELSE w
    IN  IF w1.currentBadCount > 0
        THEN [w1 EXCEPT !.currentBadCount = @ - config.goodReduce]
        ELSE w1

checkingCallback(w, delay) ==
    IF delay > config.expectedDelay THEN onBadDelay(w) ELSE onGoodDelay(w)

\* App.run and the callback of the start-delay timer.
startUp(w) == registerRestartEveryDay(startChecking(w))

----------------------------------------------------------------------------
(* ModemUtil.restart *)

\* Whether a step of restart() throws on the device's response: an empty
\* page or a page without the token for the two token steps, a network
\* error for the login post; postRestart swallows every error.
StepThrows_restartCommandThrows(step, response) ==
    CASE step = "getFrmLoginToken" -> response # "ok"
      [] step = "postLogin" -> response = "networkError"
      [] step = "getSessionToken" -> response # "ok"
      [] step = "postRestart" -> response = "networkError"

StepThrows(step, response) ==
    CASE step = "getFrmLoginToken" -> response # "ok"
      [] step = "postLogin" -> response = "networkError"
      [] step = "getSessionToken" -> response # "ok"
      [] step = "postRestart" -> FALSE

\* restart() from step i on the device's responses: how its promise
\* settles, the last step it executed and the requests it sent, in order.
\* The awaits between the steps touch no state of App, so a call in flight
\* settles in one task of App.
RECURSIVE restartFrom(_, _)
restartFrom(i, responses) ==
    IF StepThrows(RestartSteps[i], responses[i])
    THEN [settled |-> "rejected", step |-> RestartSteps[i],
          sent |-> SubSeq(RestartSteps, 1, i)]
    ELSE IF i = Len(RestartSteps)
    THEN [settled |-> "resolved", step |-> RestartSteps[i],
          sent |-> SubSeq(RestartSteps, 1, i)]
    ELSE restartFrom(i + 1, responses)

restart(responses) == restartFrom(1, responses)

\* The ways a restart() call can settle, over all responses of the device.
RestartOutcomes == {restart(responses) : responses \in [1..Len(RestartSteps) -> Responses]}

----------------------------------------------------------------------------
(* Dates: local time in milliseconds, without daylight-saving shifts *)

SecondMs == 1000
MinuteMs == 60000
HourMs == 3600000
DayMs == 86400000

getHours(t) == (t % DayMs) \div HourMs
getMinutes(t) == (t % HourMs) \div MinuteMs
getSeconds(t) == (t % MinuteMs) \div SecondMs
getMilliseconds(t) == t % SecondMs

setHours(t, h) == t + (h - getHours(t)) * HourMs
setMinutes(t, m) == t + (m - getMinutes(t)) * MinuteMs
setSeconds(t, sec) == t + (sec - getSeconds(t)) * SecondMs
setMilliseconds(t, ms) == t + (ms - getMilliseconds(t))

\* A time text is the sequence of its characters.
Chars(h1, h2, m1, m2) == <<h1, h2, ":", m1, m2>>
CharsSec(h1, h2, m1, m2, s1, s2) == <<h1, h2, ":", m1, m2, ":", s1, s2>>

TimeTexts ==
    {Chars("0", "3", "0", "0"),
     CharsSec("0", "3", "0", "0", "3", "0"),
     CharsSec("2", "3", "5", "9", "5", "9"),
     Chars("0", "0", "0", "0")}

\* time.split(":")
RECURSIVE split(_)
split(text) ==
    IF \A i \in 1..Len(text) : text[i] # ":"
    THEN <<text>>
    ELSE LET k == CHOOSE i \in 1..Len(text) :
                     text[i] = ":" /\ \A j \in 1..(i - 1) : text[j] # ":"
         IN  <<SubSeq(text, 1, k - 1)>> \o split(SubSeq(text, k + 1, Len(text)))

DigitValue(c) ==
    CASE c = "0" -> 0 [] c = "1" -> 1 [] c = "2" -> 2 [] c = "3" -> 3 [] c = "4" -> 4
      [] c = "5" -> 5 [] c = "6" -> 6 [] c = "7" -> 7 [] c = "8" -> 8 [] c = "9" -> 9

\* Number.parseInt(v, 10) on a text of digits.
RECURSIVE parseInt(_)
parseInt(digits) ==
    IF Len(digits) = 0 THEN 0
    ELSE 10 * parseInt(SubSeq(digits, 1, Len(digits) - 1)) + DigitValue(digits[Len(digits)])

\* App.parseDate at the instant today = new Date().
parseDate(time, today) ==
    LET fields == split(time)
        hour == parseInt(fields[1])
        minute == parseInt(fields[2])
        d1 == setHours(today, hour)
        d2 == setMinutes(d1, minute)
        d3 == IF Len(fields) >= 3
              THEN setSeconds(d2, parseInt(fields[3]))
              ELSE setSeconds(d2, 0)
    IN  setMilliseconds(d3, 0)

\* The instant registerRestartEveryDay arms its timer for, computed at now.
nextRestartTime_strictlyPast(restartEveryDayDate, now) ==
    LET n1 == setHours(now, getHours(restartEveryDayDate))
        n2 == setMinutes(n1, getMinutes(restartEveryDayDate))
        n3 == setSeconds(n2, getSeconds(restartEveryDayDate))
        n4 == setMilliseconds(n3, 0)
    IN  IF n4 < now THEN n4 + DayMs ELSE n4

nextRestartTime(restartEveryDayDate, now) ==
    LET n1 == setHours(now, getHours(restartEveryDayDate))
        n2 == setMinutes(n1, getMinutes(restartEveryDayDate))
        n3 == setSeconds(n2, getSeconds(restartEveryDayDate))
        n4 == setMilliseconds(n3, 0)
    IN  IF n4 <= now THEN n4 + DayMs ELSE n4

\* Instants at which the App is constructed and run, and by how much a
\* timeout fires off its instant.
ConstructionInstants == {12 * HourMs + 34 * MinuteMs + 56 * SecondMs + 789, DayMs}
RunOffsets ==
    {0, 3 * HourMs - 1, 3 * HourMs, 3 * HourMs + 1, 3 * HourMs + 5 * MinuteMs,
     DayMs - SecondMs, DayMs - 1}
Lateness == {-1, 0, 1, 5 * MinuteMs}

----------------------------------------------------------------------------
(* History of the samples *)

NoRun == -1

\* hist.badRun: the number of consecutive scored bad samples since
\* currentBadCount was 0 (the sample that reaches the ceiling included),
\* NoRun when a good sample moved the score since.
\* hist.stuck: a restart() call has succeeded and every sample that
\* completed since was bad.
History(w, op, good) ==
    [badRun |->
        IF op = "probe" /\ ~good /\ ~isRestarting
        THEN IF currentBadCount = 0 THEN 1
             ELSE IF hist.badRun # NoRun THEN hist.badRun + 1
             ELSE NoRun
        ELSE IF w.currentBadCount = currentBadCount THEN hist.badRun
        ELSE IF w.currentBadCount = 0 THEN 0
        ELSE NoRun,
     stuck |->
        IF op = "restartSucceeded" THEN TRUE
        ELSE IF op = "restartFailed" \/ (op = "probe" /\ good) THEN FALSE
        ELSE hist.stuck]

NoSchedule == [time |-> <<>>, date |-> 0, now |-> 0, next |-> 0, armed |-> FALSE]
Pending == [settled |-> "pending", step |-> "-", sent |-> <<>>]
NoRequest == [responses |-> <<>>, result |-> Pending]

----------------------------------------------------------------------------
(* Initial state: the App is constructed, run() has not been called *)

Init ==
    /\ config \in Configs \cup DefaultConfigs
    /\ pc = "constructed"
    /\ currentBadCount = 0
    /\ checkingIntervalHandler = NULL
    /\ isRestarting = FALSE
    /\ intervals = {}
    /\ dailyTimeouts = 0
    /\ probes = [k \in ProbeKinds |-> 0]
    /\ calls = 0
    /\ last = Event("new", "-", FALSE, FALSE)
    /\ hist = [badRun |-> 0, stuck |-> FALSE]
    /\ schedule = NoSchedule
    /\ request = NoRequest

----------------------------------------------------------------------------
(* Actions *)

Run(startDelay) ==
    /\ pc = "constructed"
    /\ IF startDelay > 0
       THEN /\ pc' = "startDelay"
            /\ Commit(World)
       ELSE /\ pc' = "running"
            /\ Within(startUp(World))
            /\ Commit(startUp(World))
    /\ last' = Event("run", "-", FALSE, FALSE)
    /\ UNCHANGED <<config, hist, schedule, request>>

StartDelayFire ==
    /\ pc = "startDelay"
    /\ pc' = "running"
    /\ Within(startUp(World))
    /\ Commit(startUp(World))
    /\ last' = Event("startDelay", "-", FALSE, FALSE)
    /\ UNCHANGED <<config, hist, schedule, request>>

\* A live interval timer fires: the callback runs up to await checkingDelay().
Tick ==
    /\ intervals # {}
    /\ LET kind == IF calls = 0 THEN "fresh" ELSE "stale"
           w == [World EXCEPT !.probes[kind] = @ + 1]
       IN  /\ Within(w)
           /\ Commit(w)
           /\ last' = Event("tick", "-", FALSE, FALSE)
    /\ UNCHANGED <<config, pc, hist, schedule, request>>

\* The fetch of a suspended interval callback settles: the rest of the callback.
ProbeComplete(kind, result, elapsed) ==
    /\ probes[kind] > 0
    /\ LET delay == checkingDelay(result, elapsed)
           w0 == [World EXCEPT !.probes[kind] = @ - 1]
           w == checkingCallback(w0, delay)
       IN  /\ Within(w)
           /\ Commit(w)
           /\ last' = Event("probe", kind, delay <= config.expectedDelay,
                            w.calls > calls)
           /\ hist' = History(w, "probe", delay <= config.expectedDelay)
    /\ UNCHANGED <<config, pc, schedule, request>>

\* Consecutive daily firings are told apart as odd and even days.
Day == IF last.op = "daily" /\ last.kind = "odd" THEN "even" ELSE "odd"

\* An armed daily timer fires.
DailyFire ==
    /\ dailyTimeouts > 0
    /\ LET w == dailyCallback([World EXCEPT !.dailyTimeouts = @ - 1])
       IN  /\ Within(w)
           /\ Commit(w)
           /\ last' = Event("daily", Day, FALSE,
                            w.calls > calls)
           /\ hist' = History(w, "daily", FALSE)
    /\ UNCHANGED <<config, pc, schedule, request>>

\* A restart() call in flight settles: the rest of restartModem and the
\* .then(() => startChecking()) reaction of its caller.
RestartSettle(outcome) ==
    /\ calls > 0
    /\ LET w0 == [World EXCEPT !.calls = @ - 1]
           w == IF outcome.settled = "rejected"
                THEN startChecking(restartModemCatch(w0))
                ELSE startChecking(w0)
       IN  /\ Within(w)
           /\ Commit(w)
           /\ last' = Event(IF outcome.settled = "rejected"
                            THEN "restartFailed" ELSE "restartSucceeded",
                            outcome.step, FALSE, FALSE)
           /\ hist' = History(w, IF outcome.settled = "rejected"
                                 THEN "restartFailed" ELSE "restartSucceeded", FALSE)
    /\ UNCHANGED <<config, pc, schedule, request>>

StartUp == (\E startDelay \in StartDelays : Run(startDelay)) \/ StartDelayFire

Next ==
    \/ \E startDelay \in StartDelays : Run(startDelay)
    \/ StartDelayFire
    \/ Tick
    \/ \E kind \in ProbeKinds, result \in FetchResults, elapsed \in Elapsed :
          ProbeComplete(kind, result, elapsed)
    \/ DailyFire
    \/ \E outcome \in RestartOutcomes : RestartSettle(outcome)

Spec == Init /\ [][Next]_vars

\* Timers that are armed fire, and every request of restart() settles.
LiveSpec ==
    /\ Init
    /\ [][Next]_vars
    /\ WF_vars(StartUp)
    /\ SF_vars(DailyFire)
    /\ WF_vars(\E outcome \in RestartOutcomes : RestartSettle(outcome))

----------------------------------------------------------------------------
(* The daily schedule on its own: the App is constructed and run at some
   instants, and the daily timeout fires at or near the instant it was
   armed for and re-arms itself. *)

DateInit ==
    /\ config \in {c \in Configs : /\ c.restartEveryDayTime # ""
                                   /\ c.badIncrease = 1
                                   /\ c.goodReduce = 1
                                   /\ c.maxBadCount = 1}
    /\ pc = "constructed"
    /\ currentBadCount = 0
    /\ checkingIntervalHandler = NULL
    /\ isRestarting = FALSE
    /\ intervals = {}
    /\ dailyTimeouts = 0
    /\ probes = [k \in ProbeKinds |-> 0]
    /\ calls = 0
    /\ last = Event("new", "-", FALSE, FALSE)
    /\ hist = [badRun |-> 0, stuck |-> FALSE]
    /\ request = NoRequest
    /\ \E time \in TimeTexts, today \in ConstructionInstants, offset \in RunOffsets :
          schedule = [time |-> time,
                      date |-> parseDate(time, today),
                      now |-> (today \div DayMs) * DayMs + offset,
                      next |-> 0,
                      armed |-> FALSE]

\* registerRestartEveryDay called from run().
DateRegister ==
    /\ ~schedule.armed
    /\ schedule' = [schedule EXCEPT
                       !.next = nextRestartTime(schedule.date, schedule.now),
                       !.armed = TRUE]
    /\ UNCHANGED <<appVars, request>>

\* The daily timeout fires and registerRestartEveryDay re-arms it.
DateFire(late) ==
    /\ schedule.armed
    /\ schedule.next \div DayMs <= MaxDays
    /\ LET now == schedule.next + late
       IN  schedule' = [schedule EXCEPT
                          !.now = now,
                          !.next = nextRestartTime(schedule.date, now)]
    /\ UNCHANGED <<appVars, request>>

DateNext == DateRegister \/ \E late \in Lateness : DateFire(late)

DateSpec == DateInit /\ [][DateNext]_vars

----------------------------------------------------------------------------
(* ModemUtil.restart() on its own: one call against a device whose
   responses to the four requests are given. *)

RestartInit ==
    /\ config \in {c \in Configs : /\ c.restartEveryDayTime = ""
                                   /\ c.badIncrease = 1
                                   /\ c.goodReduce = 1
                                   /\ c.maxBadCount = 1}
    /\ pc = "constructed"
    /\ currentBadCount = 0
    /\ checkingIntervalHandler = NULL
    /\ isRestarting = FALSE
    /\ intervals = {}
    /\ dailyTimeouts = 0
    /\ probes = [k \in ProbeKinds |-> 0]
    /\ calls = 0
    /\ last = Event("new", "-", FALSE, FALSE)
    /\ hist = [badRun |-> 0, stuck |-> FALSE]
    /\ schedule = NoSchedule
    /\ \E responses \in [1..Len(RestartSteps) -> Responses] :
          request = [responses |-> responses, result |-> Pending]

RestartCall ==
    /\ request.result = Pending
    /\ request' = [request EXCEPT !.result = restart(request.responses)]
    /\ UNCHANGED <<appVars, schedule>>

RestartSpec == RestartInit /\ [][RestartCall]_vars

TypeOK ==
    /\ config \in Configs \cup DefaultConfigs
    /\ pc \in {"constructed", "startDelay", "running"}
    /\ currentBadCount \in Int
    /\ checkingIntervalHandler \in 0..MaxTimerId
    /\ isRestarting \in BOOLEAN
    /\ intervals \subseteq 1..MaxTimerId
    /\ dailyTimeouts \in Nat
    /\ probes \in [ProbeKinds -> 0..MaxProbes]
    /\ calls \in 0..MaxCalls

----------------------------------------------------------------------------
(* Claims *)

Calling == calls > 0

\* C1: at most one call of modemUtil.restart() is in flight in every
\* reachable state, whichever path started it.
C1_AtMostOneRestartInFlight == calls <= 1

\* C2: currentBadCount never goes negative, for all positive badIncrease,
\* goodReduce and maxBadCount: the decrement of a good sample stops at 0.
C2_BadScoreNeverNegative == currentBadCount >= 0

\* C3: between tasks currentBadCount never exceeds maxBadCount, and a bad
\* sample whose increment reaches maxBadCount leaves currentBadCount at 0.
C3_BadScoreWithinCeiling ==
    /\ [](currentBadCount <= config.maxBadCount)
    /\ [][(/\ last'.op = "probe"
           /\ ~last'.good
           /\ ~isRestarting
           /\ currentBadCount + config.badIncrease >= config.maxBadCount)
          => currentBadCount' = 0]_vars

\* A bad sample has just reached the ceiling after accumulating over more
\* than one sample: the score is back at 0 and the restart call was made.
C3_Witness ==
    /\ last.op = "probe"
    /\ ~last.good
    /\ last.call
    /\ currentBadCount = 0
    /\ config.maxBadCount > config.badIncrease

\* C4: a probe sample that completes while isRestarting is true, bad or
\* good, leaves currentBadCount as it was.
C4_NoScoringWhileRestarting ==
    [][(isRestarting /\ last'.op = "probe") => currentBadCount' = currentBadCount]_vars

\* C5: isRestarting goes from true to false only when the restart attempt
\* fails or on a good sample that was started after the restart call
\* returned; a sample started before the restart was initiated, or one
\* completing while the call is in flight, does not clear it.
C5_FlagClearedOnlyByFailureOrRecovery ==
    [][(isRestarting /\ ~isRestarting')
          => \/ last'.op = "restartFailed"
             \/ (last'.op = "probe" /\ last'.good /\ last'.kind = "fresh" /\ ~Calling)]_vars

\* C6: while a call of modemUtil.restart() is in flight the polling timer
\* is stopped: checkingIntervalHandler is absent and no interval is live.
C6_PollingStoppedDuringCall == Calling => (checkingIntervalHandler = NULL /\ intervals = {})

\* C7: restartModem called while isRestarting is true is a no-op: it
\* changes no state, and a task that starts with isRestarting true makes no
\* call of modemUtil.restart(); a daily firing then leaves the flag and the
\* calls in flight as they were.
C7_GuardedRestartIsNoOp ==
    /\ [](isRestarting => restartModem(World) = World)
    /\ [][isRestarting => calls' <= calls]_vars
    /\ [][(isRestarting /\ last'.op = "daily")
            => (isRestarting' /\ calls' = calls /\ ~last'.call)]_vars

\* The daily timer has just fired while a restart call was in flight and
\* the guard suppressed it.
C7_Witness ==
    /\ last.op = "daily"
    /\ ~last.call
    /\ isRestarting
    /\ calls = 1

\* C8: when a step of modemUtil.restart() before the restart command fails,
\* isRestarting is false and polling is active right after the failure is
\* handled.
C8_FailureClearsFlagAndResumes ==
    last.op = "restartFailed"
        => /\ ~isRestarting
           /\ checkingIntervalHandler # NULL
           /\ checkingIntervalHandler \in intervals

\* The only restart call in flight has just failed at its login step.
C8_Witness ==
    /\ last.op = "restartFailed"
    /\ last.kind = "postLogin"
    /\ ~Calling
    /\ ~isRestarting
    /\ checkingIntervalHandler # NULL

\* C9: when modemUtil.restart() succeeds, isRestarting is true and polling
\* is active afterwards; a bad sample while isRestarting leaves it true and
\* the first good sample clears it.
C9_SuccessLeavesFlagUntilGoodSample ==
    /\ [](last.op = "restartSucceeded"
            => (isRestarting /\ checkingIntervalHandler # NULL))
    /\ [][(isRestarting /\ last'.op = "probe" /\ ~last'.good) => isRestarting']_vars
    /\ [][(isRestarting /\ last'.op = "probe" /\ last'.good) => ~isRestarting']_vars

\* C10: with a daily time configured, once started exactly one daily timer
\* is armed in every state, after every firing (restart started, failed or
\* suppressed by the guard), and the daily timer fires again and again.
C10_DailyScheduleRearms ==
    /\ []((config.restartEveryDayTime # "" /\ pc = "running") => dailyTimeouts = 1)
    /\ [][last'.op = "daily" => dailyTimeouts' = 1]_vars
    /\ (config.restartEveryDayTime # "" => []<><<DailyFire>>_vars)

\* The daily timer has fired with the restart suppressed by the guard, and
\* the next daily timer is armed.
C10_Witness ==
    /\ last.op = "daily"
    /\ ~last.call
    /\ dailyTimeouts = 1
    /\ config.restartEveryDayTime # ""

\* The time of day a time text stands for, in milliseconds.
C11_TimeOfDay(time) ==
    CASE time = Chars("0", "3", "0", "0") -> 3 * HourMs
      [] time = CharsSec("0", "3", "0", "0", "3", "0") -> 3 * HourMs + 30 * SecondMs
      [] time = CharsSec("2", "3", "5", "9", "5", "9") -> DayMs - SecondMs
      [] time = Chars("0", "0", "0", "0") -> 0

\* C11: the instant the daily timer is armed for is strictly after the
\* current instant and is the first occurrence of the configured time of
\* day after it: today's if that is still ahead, tomorrow's if it is at or
\* before now.
C11_NextInstantStrictlyAfterNow ==
    schedule.armed
        => /\ schedule.next > schedule.now
           /\ schedule.next % DayMs = C11_TimeOfDay(schedule.time)
           /\ schedule.next - schedule.now <= DayMs
           /\ (schedule.now % DayMs >= C11_TimeOfDay(schedule.time)
                  <=> schedule.next \div DayMs = schedule.now \div DayMs + 1)

\* Configured 03:00, the timer fired and was re-armed at 03:05: the next
\* firing is 03:00 of the following day.
C11_Witness ==
    /\ schedule.armed
    /\ schedule.time = Chars("0", "3", "0", "0")
    /\ schedule.now % DayMs = 3 * HourMs + 5 * MinuteMs
    /\ schedule.now \div DayMs >= 1
    /\ schedule.next = (schedule.now \div DayMs + 1) * DayMs + 3 * HourMs

\* The number of the bad sample that reaches the ceiling from a score of 0.
C12_TriggerSample == (config.maxBadCount + config.badIncrease - 1) \div config.badIncrease

\* C12: a sample starts a restart exactly when it is bad, isRestarting is
\* false and its increment brings currentBadCount to maxBadCount or above;
\* counting consecutive bad samples from a score of 0, that is sample number
\* ceil(maxBadCount / badIncrease), never an earlier or a later one, and it
\* leaves the score at 0.
C12_RestartExactlyAtCeiling ==
    /\ [][last'.op = "probe"
            => (last'.call <=> (/\ ~last'.good
                                /\ ~isRestarting
                                /\ currentBadCount + config.badIncrease
                                       >= config.maxBadCount))]_vars
    /\ [][(last'.op = "probe" /\ last'.call /\ hist'.badRun # NoRun)
            => (hist'.badRun = C12_TriggerSample /\ currentBadCount' = 0)]_vars
    /\ [](hist.badRun # NoRun
            => \/ (/\ hist.badRun < C12_TriggerSample
                   /\ currentBadCount = hist.badRun * config.badIncrease)
               \/ (hist.badRun = C12_TriggerSample /\ currentBadCount = 0))

\* With maxBadCount=10 and badIncrease=2 the score went 2, 4, 6, 8 and the
\* fifth bad sample in a row has started the restart and reset it to 0.
C12_Witness ==
    /\ config.maxBadCount = DefaultMaxBadCount
    /\ config.badIncrease = DefaultBadIncrease
    /\ last.op = "probe"
    /\ ~last.good
    /\ last.call
    /\ hist.badRun = 5
    /\ calls = 1
    /\ currentBadCount = 0

\* A step before the restart command fails: no token in the page or no
\* page at all for the two token steps, no answer to the login post.
C13_Fails(i, responses) ==
    CASE i = 1 -> responses[1] # "ok"
      [] i = 2 -> responses[2] = "networkError"
      [] i = 3 -> responses[3] # "ok"

\* C13: restart() sends its requests in the order login token, login,
\* session token, restart command; it fails exactly when one of the first
\* three steps fails, and then sends nothing after the failing step; an
\* error of the restart command itself still gives success.
C13_RestartStepsAndOutcome ==
    request.result # Pending =>
        LET r == request.result
            failing == {i \in 1..3 : C13_Fails(i, request.responses)}
        IN  /\ r.sent = SubSeq(RestartSteps, 1, Len(r.sent))
            /\ r.settled = "rejected" <=> failing # {}
            /\ failing # {} => (/\ Len(r.sent) \in failing
                                /\ \A i \in failing : Len(r.sent) <= i
                                /\ \A k \in 1..Len(r.sent) : r.sent[k] # "postRestart")
            /\ failing = {} => (r.settled = "resolved" /\ r.sent = RestartSteps)

\* The restart command got no answer after three good steps, and the call
\* has succeeded.
C13_Witness ==
    /\ request.responses = <<"ok", "ok", "ok", "networkError">>
    /\ request.result.settled = "resolved"
    /\ request.result.sent = RestartSteps

\* C14: polling always resumes: once running, polling is stopped only
\* while a restart() call is in flight, and, every call settling, polling
\* is never stopped forever: checkingIntervalHandler is present again and
\* again.
C14_PollingAlwaysResumes ==
    /\ []((pc = "running" /\ checkingIntervalHandler = NULL) => Calling)
    /\ []<>(pc = "running" => checkingIntervalHandler # NULL)

\* A restart cycle is over: the call has succeeded, none is in flight and
\* the polling timer is live again.
C14_Witness ==
    /\ last.op = "restartSucceeded"
    /\ ~Calling
    /\ checkingIntervalHandler # NULL
    /\ checkingIntervalHandler \in intervals

\* C15: at most one probe tick is in progress at any time, between the
\* start of its measurement and the end of its scoring.
C15_AtMostOneProbeInProgress == TotalProbes(probes) <= 1

\* C16: while checkingIntervalHandler is absent no probe tick changes
\* currentBadCount or isRestarting or starts a restart.
C16_ProbesActOnlyWhilePolling ==
    [][(checkingIntervalHandler = NULL /\ last'.op = "probe")
          => (/\ currentBadCount' = currentBadCount
              /\ isRestarting' = isRestarting
              /\ ~last'.call)]_vars

\* C17: after a restart() call that succeeded, as long as every sample that
\* completes is bad, isRestarting stays true, currentBadCount stays as it
\* is and no sample starts a restart; a daily firing is suppressed by the
\* guard.
C17_StuckDeviceNeverRetriggers ==
    /\ [](hist.stuck => isRestarting)
    /\ [][(hist.stuck /\ last'.op = "probe" /\ ~last'.good)
            => (currentBadCount' = currentBadCount /\ ~last'.call)]_vars
    /\ [][(hist.stuck /\ last'.op = "daily") => ~last'.call]_vars

\* C18: at most one interval timer is live, and one is live exactly when
\* checkingIntervalHandler is present, which then names it; startChecking
\* with the handle present and stopChecking with it absent change nothing.
C18_PollingHandleInvariant ==
    /\ Cardinality(intervals) <= 1
    /\ (checkingIntervalHandler # NULL <=> intervals # {})
    /\ (checkingIntervalHandler # NULL => intervals = {checkingIntervalHandler})
    /\ (checkingIntervalHandler # NULL => startChecking(World) = World)
    /\ (checkingIntervalHandler = NULL => stopChecking(World) = World)

\* The daily timer has fired with the handle absent and a score that is
\* not 0: stopChecking left the score alone.
C18_Witness ==
    /\ last.op = "daily"
    /\ last.call
    /\ checkingIntervalHandler = NULL
    /\ currentBadCount > 0

\* C19: a task that starts a restart leaves checkingIntervalHandler absent
\* and currentBadCount at 0 with one more call in flight, and
\* currentBadCount is 0 in every state in which isRestarting is true.
C19_ScoreZeroWhileRestarting ==
    /\ [](isRestarting => currentBadCount = 0)
    /\ [][(~isRestarting /\ isRestarting')
            => (/\ checkingIntervalHandler' = NULL
                /\ currentBadCount' = 0
                /\ calls' = calls + 1)]_vars

====
